---- MODULE Spec2Model ----
(***************************************************************************)
(* Model of the resume screening service of src/app.py: the extractor      *)
(* (ResumeParser), the scorer (SimpleScoring) and the three request        *)
(* handlers that store jobs and resumes and rank candidates.               *)
(*                                                                         *)
(* Conventions.                                                            *)
(*  - Python str values are TLA+ strings; Len, SubSeq and \o work on them.  *)
(*  - A percentage that the code rounds with round(x, 1) is kept in tenths  *)
(*    of a percent: 33.3 is 333, 100 is 1000.  The overall score is         *)
(*    computed from hundredths and rounded to tenths.                       *)
(*  - The code computes in binary floating point.  A value whose exact      *)
(*    decimal expansion ends in a 5 at the second place sits between two    *)
(*    one-decimal neighbours and binary rounding error decides which one    *)
(*    round() returns; the parameter `up` of the rounding operators is      *)
(*    that outcome, chosen by the calling action.                           *)
(*  - A Python exception raised by a function is the record Raise(name);    *)
(*    a returned value v is Return(v).                                      *)
(***************************************************************************)
EXTENDS Integers, Sequences, FiniteSets, TLC

VARIABLES
    active_jobs,        \* app.py:328  job_id -> job posting
    processed_resumes,  \* app.py:329  job_id -> list of parsed resumes
    response,           \* the JSON body and status the last request returned
    op,                 \* name of the function applied last ("" before any)
    args,               \* the inputs of the function under check
    result              \* what that function returned

vars == <<active_jobs, processed_resumes, response, op, args, result>>

(***************************************************************************)
(* Python built-ins on str, list and dict                                  *)
(***************************************************************************)

Range(f) == {f[x] : x \in DOMAIN f}

Min(a, b) == IF a <= b THEN a ELSE b

CharAt(s, i) == SubSeq(s, i, i)

UpperCase == "ABCDEFGHIJKLMNOPQRSTUVWXYZ"
LowerCase == "abcdefghijklmnopqrstuvwxyz"
Digits == "0123456789"

\* the characters of a string, as a set of one-character strings
Chars(alphabet) == {CharAt(alphabet, i) : i \in 1..Len(alphabet)}

\* c.lower() for every upper-case letter c
LowerOf == [c \in Chars(UpperCase) |->
    CharAt(LowerCase, CHOOSE i \in 1..Len(UpperCase) : CharAt(UpperCase, i) = c)]

LowerChar(c) == IF c \in DOMAIN LowerOf THEN LowerOf[c] ELSE c

\* str.lower()
RECURSIVE Lower(_)
Lower(s) == IF Len(s) = 0 THEN "" ELSE LowerChar(CharAt(s, 1)) \o Lower(Tail(s))

\* the characters str.strip() and str.split() treat as whitespace, and \s of re
IsSpace(c) == c \in {" ", "\t", "\n"}

\* int(c) for every decimal digit c
DigitValue == [c \in Chars(Digits) |->
    (CHOOSE i \in 1..Len(Digits) : CharAt(Digits, i) = c) - 1]

IsDigit(c) == c \in DOMAIN DigitValue

\* \w of re: letters, digits and the underscore
WordChars == Chars(UpperCase) \cup Chars(LowerCase) \cup Chars(Digits) \cup {"_"}

IsWordChar(c) == c \in WordChars

\* str.strip()
RECURSIVE Strip(_)
Strip(s) ==
    IF Len(s) = 0 THEN ""
    ELSE IF IsSpace(CharAt(s, 1)) THEN Strip(Tail(s))
    ELSE IF IsSpace(CharAt(s, Len(s))) THEN Strip(SubSeq(s, 1, Len(s) - 1))
    ELSE s

\* s[i:].startswith(t), for a 1-based position i
StartsWithAt(s, i, t) == i + Len(t) - 1 <= Len(s) /\ SubSeq(s, i, i + Len(t) - 1) = t

\* Python's `needle in hay` on strings
Contains(hay, needle) == \E i \in 1..(Len(hay) + 1) : StartsWithAt(hay, i, needle)

\* set(s.split()): the maximal runs of non-whitespace characters of s
Words(s) ==
    {SubSeq(s, p[1], p[2]) : p \in
        {q \in (1..Len(s)) \X (1..Len(s)) :
            /\ q[1] <= q[2]
            /\ \A k \in q[1]..q[2] : ~IsSpace(CharAt(s, k))
            /\ (q[1] = 1 \/ IsSpace(CharAt(s, q[1] - 1)))
            /\ (q[2] = Len(s) \/ IsSpace(CharAt(s, q[2] + 1)))}}

\* dict.get(key, default) on a record
Get(d, key, default) == IF key \in DOMAIN d THEN d[key] ELSE default

\* int(s) for a string of decimal digits
RECURSIVE ParseInt(_)
ParseInt(s) ==
    IF Len(s) = 0 THEN 0
    ELSE 10 * ParseInt(SubSeq(s, 1, Len(s) - 1)) + DigitValue[CharAt(s, Len(s))]

Return(v) == [raised |-> FALSE, value |-> v, error |-> ""]
Raise(name) == [raised |-> TRUE, value |-> 0, error |-> name]

\* round(num / den, 1) in tenths, for num >= 0 and den > 0; `up` settles a tie
Round1(num, den, up) ==
    LET q == (10 * num) \div den
        r == (10 * num) % den
    IN  IF 2 * r < den THEN q
        ELSE IF 2 * r > den THEN q + 1
        ELSE IF up THEN q + 1 ELSE q

(***************************************************************************)
(* ResumeParser                                                            *)
(***************************************************************************)

\* self.skill_keywords, in declaration order
skill_keywords == <<
    [category |-> "python",
     skills |-> <<"python", "django", "flask", "fastapi", "pandas", "numpy", "jupyter">>],
    [category |-> "javascript",
     skills |-> <<"javascript", "js", "node.js", "react", "vue", "angular", "typescript">>],
    [category |-> "java",
     skills |-> <<"java", "spring", "hibernate", "maven", "gradle">>],
    [category |-> "machine_learning",
     skills |-> <<"machine learning", "ml", "artificial intelligence", "ai",
                  "tensorflow", "pytorch">>],
    [category |-> "databases",
     skills |-> <<"sql", "mysql", "postgresql", "mongodb", "redis">>],
    [category |-> "cloud",
     skills |-> <<"aws", "azure", "gcp", "docker", "kubernetes">>],
    [category |-> "web_dev",
     skills |-> <<"html", "css", "rest api", "graphql", "microservices">>],
    [category |-> "data_science",
     skills |-> <<"data science", "analytics", "visualization", "statistics">>],
    [category |-> "mobile",
     skills |-> <<"android", "ios", "react native", "flutter">>],
    [category |-> "devops",
     skills |-> <<"ci/cd", "jenkins", "git", "linux">>] >>

\* \b at position i of s: exactly one of the characters around it is a word character
WordBoundary(s, i) ==
    (i > 1 /\ IsWordChar(CharAt(s, i - 1))) # (i <= Len(s) /\ IsWordChar(CharAt(s, i)))

\* re.search(r'\b' + re.escape(skill.lower()) + r'\b', text_lower)
SearchSkill(skill, text_lower) ==
    LET skill_lower == Lower(skill)
    IN  \E i \in 1..Len(text_lower) :
            /\ StartsWithAt(text_lower, i, skill_lower)
            /\ WordBoundary(text_lower, i)
            /\ WordBoundary(text_lower, i + Len(skill_lower))

\* extract_skills reporting len(found_skills), the number of categories, as the total
extract_skills_counting_categories(text) ==
    LET text_lower == Lower(text)
        category_skills(k) ==
            SelectSeq(skill_keywords[k].skills, LAMBDA skill : SearchSkill(skill, text_lower))
        found == {k \in DOMAIN skill_keywords : Len(category_skills(k)) > 0}
        found_skills == [c \in {skill_keywords[k].category : k \in found} |->
            category_skills(CHOOSE k \in found : skill_keywords[k].category = c)]
        all_skills_found == UNION {Range(category_skills(k)) : k \in DOMAIN skill_keywords}
    IN  [categorized_skills |-> found_skills,
         all_skills |-> all_skills_found,
         total_skills_found |-> Cardinality(DOMAIN found_skills)]

extract_skills(text) ==
    LET text_lower == Lower(text)
        category_skills(k) ==
            SelectSeq(skill_keywords[k].skills, LAMBDA skill : SearchSkill(skill, text_lower))
        found == {k \in DOMAIN skill_keywords : Len(category_skills(k)) > 0}
        found_skills == [c \in {skill_keywords[k].category : k \in found} |->
            category_skills(CHOOSE k \in found : skill_keywords[k].category = c)]
        all_skills_found == UNION {Range(category_skills(k)) : k \in DOMAIN skill_keywords}
    IN  [categorized_skills |-> found_skills,
         all_skills |-> all_skills_found,
         total_skills_found |-> Cardinality(all_skills_found)]

\* position after the run of digits (\d*) that starts at position i
RECURSIVE SkipDigits(_, _)
SkipDigits(s, i) ==
    IF i <= Len(s) /\ IsDigit(CharAt(s, i)) THEN SkipDigits(s, i + 1) ELSE i

\* position after the run of whitespace (\s*) that starts at position i
RECURSIVE SkipSpaces(_, _)
SkipSpaces(s, i) ==
    IF i <= Len(s) /\ IsSpace(CharAt(s, i)) THEN SkipSpaces(s, i + 1) ELSE i

\* position after an optional literal t at position i
SkipOpt(s, i, t) == IF StartsWithAt(s, i, t) THEN i + Len(t) ELSE i

\* (\d+)\+?\s*<unit>s?\s*(?:of\s*)?experience matched at position i:
\* <<end, capture>>, or <<0, "">> when there is no match at i
MatchYearsBefore(s, i, unit) ==
    LET d == SkipDigits(s, i)
        u == SkipSpaces(s, SkipOpt(s, d, "+"))
        o == SkipSpaces(s, SkipOpt(s, u + Len(unit), "s"))
        e == IF StartsWithAt(s, o, "of") THEN SkipSpaces(s, o + 2) ELSE o
    IN  IF d > i /\ StartsWithAt(s, u, unit) /\ StartsWithAt(s, e, "experience")
        THEN <<e + Len("experience"), SubSeq(s, i, d - 1)>>
        ELSE <<0, "">>

\* experience\s*:?\s*(\d+)\+?\s*years? matched at position i
MatchYearsAfter(s, i) ==
    LET c == SkipSpaces(s, i + Len("experience"))
        b == SkipSpaces(s, SkipOpt(s, c, ":"))
        d == SkipDigits(s, b)
        u == SkipSpaces(s, SkipOpt(s, d, "+"))
    IN  IF StartsWithAt(s, i, "experience") /\ d > b /\ StartsWithAt(s, u, "year")
        THEN <<SkipOpt(s, u + Len("year"), "s"), SubSeq(s, b, d - 1)>>
        ELSE <<0, "">>

\* the three experience_patterns, in order
MatchExperience(pattern, s, i) ==
    CASE pattern = 1 -> MatchYearsBefore(s, i, "year")
      [] pattern = 2 -> MatchYearsBefore(s, i, "yr")
      [] pattern = 3 -> MatchYearsAfter(s, i)

\* re.findall(experience_patterns[pattern], s) from position i on: the captures
\* of the non-overlapping matches, left to right
RECURSIVE FindAllExperience(_, _, _)
FindAllExperience(pattern, s, i) ==
    IF i > Len(s) THEN <<>>
    ELSE LET m == MatchExperience(pattern, s, i)
         IN  IF m[1] > 0 THEN <<m[2]>> \o FindAllExperience(pattern, s, m[1])
             ELSE FindAllExperience(pattern, s, i + 1)

\* max() of a set of numbers, 0 for the empty set
Max(S) == IF S = {} THEN 0 ELSE LET x == CHOOSE x \in S : \A y \in S : y <= x IN x

extract_experience(text) ==
    LET matches == FindAllExperience(1, Lower(text), 1)
                   \o FindAllExperience(2, Lower(text), 1)
                   \o FindAllExperience(3, Lower(text), 1)
        years_experience == [i \in 1..Len(matches) |-> ParseInt(matches[i])]
    IN  [years_experience |-> Max(Range(years_experience)),
         positions |-> <<>>]

\* degree_patterns: each alternation in the order the regex tries its branches
\* (x(?:'s)? tries the longer form first)
degree_patterns == <<
    <<"bachelor's", "bachelor", "bs", "ba", "b.s.", "b.a.">>,
    <<"master's", "master", "ms", "ma", "m.s.", "m.a.">>,
    <<"phd", "ph.d.", "doctorate">>,
    <<"mba", "m.b.a.">> >>

\* one alternation matched at position i: the first branch found there
MatchDegree(pattern, s, i) ==
    LET alts == degree_patterns[pattern]
        hits == {k \in 1..Len(alts) : StartsWithAt(s, i, alts[k])}
    IN  IF hits = {} THEN <<0, "">>
        ELSE LET k == CHOOSE k \in hits : \A j \in hits : k <= j
             IN  <<i + Len(alts[k]), alts[k]>>

\* re.findall(degree_patterns[pattern], s) from position i on
RECURSIVE FindAllDegrees(_, _, _)
FindAllDegrees(pattern, s, i) ==
    IF i > Len(s) THEN <<>>
    ELSE LET m == MatchDegree(pattern, s, i)
         IN  IF m[1] > 0 THEN <<m[2]>> \o FindAllDegrees(pattern, s, m[1])
             ELSE FindAllDegrees(pattern, s, i + 1)

extract_education(text) ==
    LET text_lower == Lower(text)
    IN  [degrees |-> FindAllDegrees(1, text_lower, 1)
                     \o FindAllDegrees(2, text_lower, 1)
                     \o FindAllDegrees(3, text_lower, 1)
                     \o FindAllDegrees(4, text_lower, 1),
         institutions |-> <<>>,
         fields |-> <<>>]

\* filename.lower().split('.')[-1]
RECURSIVE LastSegment(_)
LastSegment(s) ==
    IF \E i \in 1..Len(s) : CharAt(s, i) = "."
    THEN LastSegment(SubSeq(s, (CHOOSE i \in 1..Len(s) : CharAt(s, i) = ".") + 1, Len(s)))
    ELSE s

\* A file as the decoders see it: `text` is what a working decoder reads from
\* the bytes; `readable` is FALSE when PyPDF2 / python-docx raise on them or
\* when they are not valid UTF-8.
extract_text_from_file(file_content, filename) ==
    LET file_extension == LastSegment(Lower(filename))
    IN  CASE file_extension \in {"pdf", "docx"} ->
                \* extract_text_from_pdf / _docx catch every exception and return ""
                Return(IF file_content.readable THEN file_content.text ELSE "")
          [] file_extension = "txt" ->
                IF file_content.readable THEN Return(file_content.text)
                ELSE Raise("UnicodeDecodeError")
          [] OTHER -> Return("Unsupported file format")

\* parse_resume testing only for the "Unsupported file format" sentinel
parse_resume_accepting_empty(file_content, filename) ==
    LET text == extract_text_from_file(file_content, filename)
    IN  IF text.raised
        THEN [filename |-> filename,
              error |-> "Parsing error: " \o text.error,
              parsing_success |-> FALSE]
        ELSE IF text.value = "Unsupported file format"
        THEN [filename |-> filename,
              error |-> "Could not extract text from file",
              parsing_success |-> FALSE]
        ELSE [filename |-> filename,
              skills |-> extract_skills(text.value),
              experience |-> extract_experience(text.value),
              education |-> extract_education(text.value),
              full_text |-> text.value,
              parsing_success |-> TRUE]

parse_resume(file_content, filename) ==
    LET text == extract_text_from_file(file_content, filename)
    IN  IF text.raised
        THEN [filename |-> filename,
              error |-> "Parsing error: " \o text.error,
              parsing_success |-> FALSE]
        ELSE IF text.value = "" \/ text.value = "Unsupported file format"
        THEN [filename |-> filename,
              error |-> "Could not extract text from file",
              parsing_success |-> FALSE]
        ELSE [filename |-> filename,
              skills |-> extract_skills(text.value),
              experience |-> extract_experience(text.value),
              education |-> extract_education(text.value),
              full_text |-> text.value,
              parsing_success |-> TRUE]


(***************************************************************************)
(* JSON values a request body can carry in a field                         *)
(***************************************************************************)

JNull == [type |-> "null", n |-> 0, s |-> ""]
JInt(k) == [type |-> "int", n |-> k, s |-> ""]
JStr(t) == [type |-> "str", n |-> 0, s |-> t]

\* Python truthiness of a JSON value
Truthy(v) ==
    CASE v.type = "null" -> FALSE
      [] v.type = "int" -> v.n # 0
      [] v.type = "str" -> v.s # ""

\* float(v) for a truthy v: a number converts, a string converts when, stripped,
\* it is a run of decimal digits, any other string raises ValueError.  The
\* strings of the model carry no sign, point, exponent, underscore, "nan" or "inf".
ToFloat(v) ==
    IF v.type = "int" THEN Return(v.n)
    ELSE IF /\ Len(Strip(v.s)) > 0
            /\ \A i \in 1..Len(Strip(v.s)) : IsDigit(CharAt(Strip(v.s), i))
         THEN Return(ParseInt(Strip(v.s)))
         ELSE Raise("ValueError")

(***************************************************************************)
(* SimpleScoring                                                           *)
(*                                                                         *)
(* resume_skills is the list 'all_skills' of a parsed resume, which the     *)
(* parser builds with list(set(...)): a list without duplicates whose order *)
(* is the set's iteration order.  The scorer only iterates over it inside   *)
(* any(), so it is kept as the set of its elements.                         *)
(***************************************************************************)

\* [skill.lower().strip() for skill in skills if skill.strip()]
RECURSIVE NormalizeJobSkills(_)
NormalizeJobSkills(skills) ==
    IF Len(skills) = 0 THEN <<>>
    ELSE IF Strip(Head(skills)) = "" THEN NormalizeJobSkills(Tail(skills))
    ELSE <<Strip(Lower(Head(skills)))>> \o NormalizeJobSkills(Tail(skills))

\* the match test in one direction only: the job skill inside a resume skill
SkillMatchesOneWay(skill, resume_skills_lower) ==
    \E resume_skill \in resume_skills_lower : Contains(resume_skill, skill)

\* any(skill in resume_skill or resume_skill in skill for resume_skill in ...)
SkillMatches(skill, resume_skills_lower) ==
    \E resume_skill \in resume_skills_lower :
        \/ Contains(resume_skill, skill)
        \/ Contains(skill, resume_skill)

\* the loop that counts the job skills that match
CountMatches(job_lower, resume_skills_lower) ==
    Cardinality({i \in 1..Len(job_lower) : SkillMatches(job_lower[i], resume_skills_lower)})

calculate_skills_match(resume_skills, job_essential_skills, job_preferred_skills, up) ==
    LET resume_skills_lower == {Lower(skill) : skill \in resume_skills}
        essential_lower == NormalizeJobSkills(job_essential_skills)
        preferred_lower == NormalizeJobSkills(job_preferred_skills)
        essential_matches == CountMatches(essential_lower, resume_skills_lower)
        preferred_matches == CountMatches(preferred_lower, resume_skills_lower)
        \* each score as a fraction num / den of 100 percent
        en == IF Len(essential_lower) > 0 THEN essential_matches ELSE 1
        ed == IF Len(essential_lower) > 0 THEN Len(essential_lower) ELSE 1
        pn == IF Len(preferred_lower) > 0 THEN preferred_matches ELSE 1
        pd == IF Len(preferred_lower) > 0 THEN Len(preferred_lower) ELSE 1
    IN  [essential_score |-> Round1(100 * en, ed, up),
         preferred_score |-> Round1(100 * pn, pd, up),
         \* essential_score * 0.7 + preferred_score * 0.3, from the unrounded scores
         overall_skills_score |-> Round1(70 * en * pd + 30 * pn * ed, ed * pd, up),
         essential_matches |-> essential_matches,
         preferred_matches |-> preferred_matches]

\* calculate_experience_match that takes a minimum it cannot convert for no minimum
calculate_experience_match_lenient(resume_experience, required_experience, up) ==
    LET resume_years == Get(resume_experience, "years_experience", 0)
        required == IF Truthy(required_experience) /\ ~ToFloat(required_experience).raised
                    THEN ToFloat(required_experience) ELSE Return(0)
        required_years == required.value
    IN  IF required_years = 0 THEN Return(1000)
        ELSE IF resume_years >= required_years
             THEN Return(Min(1000, 800 + (resume_years - required_years) * 50))
             ELSE Return(Round1(resume_years * 80, required_years, up))

\* calculate_experience_match without the cap at 100
calculate_experience_match_uncapped(resume_experience, required_experience, up) ==
    LET resume_years == Get(resume_experience, "years_experience", 0)
        required == IF Truthy(required_experience)
                    THEN ToFloat(required_experience) ELSE Return(0)
        required_years == required.value
    IN  IF required.raised THEN required
        ELSE IF required_years = 0 THEN Return(1000)
        ELSE IF resume_years >= required_years
             THEN Return(800 + (resume_years - required_years) * 50)
             ELSE Return(Round1(resume_years * 80, required_years, up))

calculate_experience_match(resume_experience, required_experience, up) ==
    LET resume_years == Get(resume_experience, "years_experience", 0)
        required == IF Truthy(required_experience)
                    THEN ToFloat(required_experience) ELSE Return(0)
        required_years == required.value
    IN  IF required.raised THEN required
        ELSE IF required_years = 0 THEN Return(1000)
        ELSE IF resume_years >= required_years
             THEN Return(Min(1000, 800 + (resume_years - required_years) * 50))
             ELSE Return(Round1(resume_years * 80, required_years, up))

\* calculate_education_match comparing against the requirement as written
calculate_education_match_case_sensitive(resume_education, job_education_req) ==
    IF ~Truthy(job_education_req) THEN Return(1000)
    ELSE IF job_education_req.type # "str" THEN Raise("AttributeError")
    ELSE IF Lower(job_education_req.s) = "none" THEN Return(1000)
    ELSE LET degrees == Get(resume_education, "degrees", <<>>)
             resume_degrees == [i \in 1..Len(degrees) |-> Lower(degrees[i])]
         IN  IF \E i \in 1..Len(resume_degrees) :
                    Contains(job_education_req.s, resume_degrees[i])
             THEN Return(900)
             ELSE IF Len(resume_degrees) > 0 THEN Return(700)
             ELSE Return(400)

calculate_education_match(resume_education, job_education_req) ==
    IF ~Truthy(job_education_req) THEN Return(1000)
    ELSE IF job_education_req.type # "str" THEN Raise("AttributeError")
    ELSE IF Lower(job_education_req.s) = "none" THEN Return(1000)
    ELSE LET degrees == Get(resume_education, "degrees", <<>>)
             resume_degrees == [i \in 1..Len(degrees) |-> Lower(degrees[i])]
             job_education_lower == Lower(job_education_req.s)
         IN  IF \E i \in 1..Len(resume_degrees) :
                    Contains(job_education_lower, resume_degrees[i])
             THEN Return(900)
             ELSE IF Len(resume_degrees) > 0 THEN Return(700)
             ELSE Return(400)

\* calculate_semantic_similarity dividing by the resume's words instead of the union
calculate_semantic_similarity_over_resume(resume_text, job_description, up) ==
    IF resume_text.type # "str" \/ job_description.type # "str"
    THEN 500
    ELSE LET resume_words == Words(Lower(resume_text.s))
             job_words == Words(Lower(job_description.s))
             intersection == resume_words \cap job_words
         IN  IF Cardinality(resume_words) = 0 THEN 0
             ELSE Round1(100 * Cardinality(intersection), Cardinality(resume_words), up)

\* calculate_semantic_similarity that lower-cases the resume text only
calculate_semantic_similarity_case_sensitive(resume_text, job_description, up) ==
    IF resume_text.type # "str" \/ job_description.type # "str"
    THEN 500
    ELSE LET resume_words == Words(Lower(resume_text.s))
             job_words == Words(job_description.s)
             intersection == resume_words \cap job_words
             union == resume_words \cup job_words
         IN  IF Cardinality(union) = 0 THEN 0
             ELSE Round1(100 * Cardinality(intersection), Cardinality(union), up)

calculate_semantic_similarity(resume_text, job_description, up) ==
    IF resume_text.type # "str" \/ job_description.type # "str"
    THEN 500    \* the except branch: .lower() raised
    ELSE LET resume_words == Words(Lower(resume_text.s))
             job_words == Words(Lower(job_description.s))
             intersection == resume_words \cap job_words
             union == resume_words \cup job_words
         IN  IF Cardinality(union) = 0 THEN 0
             ELSE Round1(100 * Cardinality(intersection), Cardinality(union), up)

\* calculate_overall_score with the weights of experience and education exchanged
calculate_overall_score_swapped_weights(parsed_resume, job_posting, up) ==
    LET job_requirements == job_posting.requirements
        failure(name) == [overall_score |-> 0,
                          error |-> name,
                          candidate_name |-> Get(parsed_resume, "filename", "Unknown")]
    IN  IF ~({"skills", "experience", "education", "full_text"} \subseteq DOMAIN parsed_resume)
        THEN failure("KeyError")
        ELSE
        LET skills_match == calculate_skills_match(parsed_resume.skills.all_skills,
                                job_requirements.essential_skills,
                                job_requirements.preferred_skills, up)
            experience_score == calculate_experience_match(parsed_resume.experience,
                                    job_requirements.minimum_experience, up)
            education_score == calculate_education_match(parsed_resume.education,
                                   job_requirements.education_requirements)
            semantic_score == calculate_semantic_similarity(JStr(parsed_resume.full_text),
                                  job_requirements.job_description, up)
            \* the weighted sum, in hundredths of a percent
            overall_score == skills_match.overall_skills_score * 5
                             + experience_score.value * 1
                             + education_score.value * 2
                             + semantic_score * 2
        IN  IF experience_score.raised THEN failure(experience_score.error)
            ELSE IF education_score.raised THEN failure(education_score.error)
            ELSE IF "filename" \notin DOMAIN parsed_resume THEN failure("KeyError")
            ELSE [overall_score |-> Round1(overall_score, 100, up),
                  skills_breakdown |-> skills_match,
                  experience_score |-> experience_score.value,
                  education_score |-> education_score.value,
                  semantic_score |-> semantic_score,
                  candidate_name |-> parsed_resume.filename]

calculate_overall_score(parsed_resume, job_posting, up) ==
    LET job_requirements == job_posting.requirements
        failure(name) == [overall_score |-> 0,
                          error |-> name,
                          candidate_name |-> Get(parsed_resume, "filename", "Unknown")]
    IN  IF ~({"skills", "experience", "education", "full_text"} \subseteq DOMAIN parsed_resume)
        THEN failure("KeyError")
        ELSE
        LET skills_match == calculate_skills_match(parsed_resume.skills.all_skills,
                                job_requirements.essential_skills,
                                job_requirements.preferred_skills, up)
            experience_score == calculate_experience_match(parsed_resume.experience,
                                    job_requirements.minimum_experience, up)
            education_score == calculate_education_match(parsed_resume.education,
                                   job_requirements.education_requirements)
            semantic_score == calculate_semantic_similarity(JStr(parsed_resume.full_text),
                                  job_requirements.job_description, up)
            \* the weighted sum, in hundredths of a percent
            overall_score == skills_match.overall_skills_score * 5
                             + experience_score.value * 2
                             + education_score.value * 1
                             + semantic_score * 2
        IN  IF experience_score.raised THEN failure(experience_score.error)
            ELSE IF education_score.raised THEN failure(education_score.error)
            ELSE IF "filename" \notin DOMAIN parsed_resume THEN failure("KeyError")
            ELSE [overall_score |-> Round1(overall_score, 100, up),
                  skills_breakdown |-> skills_match,
                  experience_score |-> experience_score.value,
                  education_score |-> education_score.value,
                  semantic_score |-> semantic_score,
                  candidate_name |-> parsed_resume.filename]

\* the record create_job stores under 'requirements'
Requirements(essential, preferred, minimum, education, description) ==
    [essential_skills |-> essential,
     preferred_skills |-> preferred,
     minimum_experience |-> minimum,
     education_requirements |-> education,
     job_description |-> description]

(***************************************************************************)
(* The request handlers.  A job posting's created_date (the clock) is not   *)
(* kept.  `response` holds the last exchange: the endpoint, the request,    *)
(* the HTTP status and the JSON body.                                       *)
(***************************************************************************)

\* the top of the ranking that analyze_resumes returns
TopCandidates == 20

\* s.split(',')
RECURSIVE SplitComma(_)
SplitComma(s) ==
    IF \E i \in 1..Len(s) : CharAt(s, i) = ","
    THEN LET i == CHOOSE i \in 1..Len(s) :
                      CharAt(s, i) = "," /\ \A k \in 1..(i - 1) : CharAt(s, k) # ","
         IN  <<SubSeq(s, 1, i - 1)>> \o SplitComma(SubSeq(s, i + 1, Len(s)))
    ELSE <<s>>

\* [skill.strip() for skill in pieces if skill.strip()]
RECURSIVE StripAll(_)
StripAll(pieces) ==
    IF Len(pieces) = 0 THEN <<>>
    ELSE IF Strip(Head(pieces)) = "" THEN StripAll(Tail(pieces))
    ELSE <<Strip(Head(pieces))>> \o StripAll(Tail(pieces))

\* The job ids, request bodies and files the requests of the service
\* specification are drawn from.
JobIds == {"1a2b3c4d", "5e6f7a8b"}

JobBodies ==
    {[job_title |-> JStr("Backend developer"),
      company_name |-> JStr("Acme"),
      essential_skills |-> JStr("Python, ,Go , rust"),
      preferred_skills |-> JStr("java"),
      minimum_experience |-> JInt(3),
      education_requirements |-> JStr("BS required"),
      job_description |-> JStr("Python developer")],
     [job_title |-> JStr("Intern"),
      minimum_experience |-> JStr("abc")],
     [job_title |-> JStr("Broken"),
      essential_skills |-> JNull]}

UploadFiles ==
    {[filename |-> "ann.txt", file_content |-> [readable |-> TRUE, text |-> "python bs"]],
     [filename |-> "bob.txt",
      file_content |-> [readable |-> TRUE, text |-> "Java developer, 5 years experience"]],
     [filename |-> "scan.pdf", file_content |-> [readable |-> FALSE, text |-> ""]],
     [filename |-> "", file_content |-> [readable |-> TRUE, text |-> "python"]]}

\* parse_resume and calculate_overall_score are pure; their values on the files,
\* postings and resumes above are computed once and looked up by the handlers.
ParsedUploads ==
    [file \in UploadFiles |-> parse_resume(file.file_content, file.filename)]

\* the job posting create_job builds from the request body `data`
job_posting_of(job_id, data) ==
    [job_id |-> job_id,
     company_info |->
        [company_name |-> Get(data, "company_name", JStr("")),
         location |-> Get(data, "location", JStr(""))],
     job_details |->
        [job_title |-> Get(data, "job_title", JStr("")),
         department |-> Get(data, "department", JStr("")),
         employment_type |-> Get(data, "employment_type", JStr("")),
         experience_level |-> Get(data, "experience_level", JStr("")),
         salary_range |-> Get(data, "salary_range", JStr(""))],
     requirements |->
        Requirements(StripAll(SplitComma(Get(data, "essential_skills", JStr("")).s)),
                     StripAll(SplitComma(Get(data, "preferred_skills", JStr("")).s)),
                     Get(data, "minimum_experience", JInt(0)),
                     Get(data, "education_requirements", JStr("")),
                     Get(data, "job_description", JStr("")))]

\* f with key k set to v (d[k] = v on a dict)
Put(f, k, v) == [x \in DOMAIN f \cup {k} |-> IF x = k THEN v ELSE f[x]]

\* POST /create-job; job_id is the first 8 characters of a fresh uuid4
create_job(job_id, data) ==
    LET request == [data |-> data]
    IN  IF \/ Get(data, "essential_skills", JStr("")).type # "str"
           \/ Get(data, "preferred_skills", JStr("")).type # "str"
        THEN \* .split raises AttributeError
             /\ response' = [endpoint |-> "create-job", request |-> request, status |-> 400,
                             body |-> [success |-> FALSE, error |-> "AttributeError"]]
             /\ UNCHANGED <<active_jobs, processed_resumes>>
        ELSE /\ active_jobs' = Put(active_jobs, job_id, job_posting_of(job_id, data))
             /\ response' = [endpoint |-> "create-job", request |-> request, status |-> 200,
                             body |-> [success |-> TRUE,
                                       job_id |-> job_id,
                                       message |-> "Job posting created successfully"]]
             /\ UNCHANGED processed_resumes

\* the table of calculate_overall_score over those resumes and postings
ScoredUploads ==
    {<<call, calculate_overall_score(call[1], call[2], call[3])>> :
        call \in Range(ParsedUploads)
                  \X {job_posting_of(job_id, data) : job_id \in JobIds, data \in JobBodies}
                  \X BOOLEAN}

\* calculate_overall_score(resume, job_posting), read from the table
Scored(resume, job_posting, up) ==
    (CHOOSE entry \in ScoredUploads : entry[1] = <<resume, job_posting, up>>)[2]

\* <<parsed_resumes, results>> after the two appends of a loop pass
Appended(one, rest) == <<one[1] \o rest[1], one[2] \o rest[2]>>

\* one pass of the loop of upload_resumes over `file`
ProcessFile(file, parsed_resume) ==
    IF file.filename = "" THEN <<(<<>>), (<<>>)>>
    ELSE IF Get(parsed_resume, "parsing_success", FALSE)
    THEN <<(<<parsed_resume>>),
           (<<[filename |-> file.filename,
               status |-> "success",
               skills_found |-> parsed_resume.skills.total_skills_found]>>)>>
    ELSE <<(<<>>),
           (<<[filename |-> file.filename,
               status |-> "failed",
               error |-> Get(parsed_resume, "error", "Unknown error")]>>)>>

\* the loop of upload_resumes: <<parsed_resumes, results>> for the files from
\* position i on
RECURSIVE ProcessFiles(_, _)
ProcessFiles(files, i) ==
    IF i > Len(files) THEN <<(<<>>), (<<>>)>>
    ELSE \* parse_resume(file_content, file.filename)
         Appended(ProcessFile(files[i], ParsedUploads[files[i]]), ProcessFiles(files, i + 1))

\* POST /upload-resumes; job_id "" stands for a form without job_id
upload_resumes(job_id, files) ==
    LET request == [job_id |-> job_id, files |-> files]
        processed == ProcessFiles(files, 1)
    IN  IF job_id = "" \/ job_id \notin DOMAIN active_jobs
        THEN /\ response' = [endpoint |-> "upload-resumes", request |-> request, status |-> 400,
                             body |-> [success |-> FALSE, error |-> "Invalid job ID"]]
             /\ UNCHANGED <<active_jobs, processed_resumes>>
        ELSE IF files = <<>>
        THEN /\ response' = [endpoint |-> "upload-resumes", request |-> request, status |-> 400,
                             body |-> [success |-> FALSE, error |-> "No files uploaded"]]
             /\ UNCHANGED <<active_jobs, processed_resumes>>
        ELSE /\ processed_resumes' = Put(processed_resumes, job_id, processed[1])
             /\ response' = [endpoint |-> "upload-resumes", request |-> request, status |-> 200,
                             body |-> [success |-> TRUE,
                                       results |-> processed[2],
                                       total_processed |-> Len(processed[1])]]
             /\ UNCHANGED active_jobs

\* x.get('overall_score', 0)
SortKey(x) == Get(x, "overall_score", 0)

\* scored_candidates.sort(key=..., reverse=True) that forgot reverse=True
RECURSIVE SortAscending(_)
SortAscending(scored) ==
    IF Len(scored) = 0 THEN <<>>
    ELSE LET x == scored[Len(scored)]
             sorted == SortAscending(SubSeq(scored, 1, Len(scored) - 1))
             k == Cardinality({i \in DOMAIN sorted : SortKey(sorted[i]) <= SortKey(x)})
         IN  SubSeq(sorted, 1, k) \o <<x>> \o SubSeq(sorted, k + 1, Len(sorted))

\* scored_candidates.sort(key=..., reverse=True): descending and stable, each
\* element goes behind the elements whose key is not smaller
RECURSIVE SortByOverall(_)
SortByOverall(scored) ==
    IF Len(scored) = 0 THEN <<>>
    ELSE LET x == scored[Len(scored)]
             sorted == SortByOverall(SubSeq(scored, 1, Len(scored) - 1))
             k == Cardinality({i \in DOMAIN sorted : SortKey(sorted[i]) >= SortKey(x)})
         IN  SubSeq(sorted, 1, k) \o <<x>> \o SubSeq(sorted, k + 1, Len(sorted))

\* POST /analyze-resumes; ups[r] is how floating point settles a rounding tie
\* in the score of resume r
analyze_resumes(job_id, ups) ==
    LET request == [job_id |-> job_id]
    IN  IF job_id = "" \/ job_id \notin DOMAIN active_jobs
        THEN /\ response' = [endpoint |-> "analyze-resumes", request |-> request, status |-> 400,
                             body |-> [success |-> FALSE, error |-> "Invalid job ID"]]
             /\ UNCHANGED <<active_jobs, processed_resumes>>
        ELSE IF job_id \notin DOMAIN processed_resumes
        THEN /\ response' = [endpoint |-> "analyze-resumes", request |-> request, status |-> 400,
                             body |-> [success |-> FALSE,
                                       error |-> "No resumes found for this job"]]
             /\ UNCHANGED <<active_jobs, processed_resumes>>
        ELSE LET job_posting == active_jobs[job_id]
                 resumes == processed_resumes[job_id]
                 \* calculate_overall_score(resume, job_posting)
                 scored_candidates == [i \in DOMAIN resumes |->
                     Scored(resumes[i], job_posting, ups[resumes[i]])]
                 sorted == SortByOverall(scored_candidates)
             IN  /\ response' =
                        [endpoint |-> "analyze-resumes", request |-> request, status |-> 200,
                         body |-> [success |-> TRUE,
                                   job_info |->
                                       [job_title |-> job_posting.job_details.job_title,
                                        company_name |-> job_posting.company_info.company_name],
                                   total_candidates |-> Len(scored_candidates),
                                   candidates |->
                                       SubSeq(sorted, 1, Min(TopCandidates, Len(sorted)))]]
                 /\ UNCHANGED <<active_jobs, processed_resumes>>

(***************************************************************************)
(* Specifications of the pure functions: Init draws the inputs, one        *)
(* action applies the function.  The stores stay empty.                    *)
(***************************************************************************)

NoJobs == [j \in {} |-> 0]
NoResponse == [endpoint |-> "", status |-> 0]
NoResult == [pending |-> TRUE]

Idle == /\ active_jobs = NoJobs
        /\ processed_resumes = NoJobs
        /\ response = NoResponse
        /\ op = ""
        /\ result = NoResult

Apply(name, value) ==
    /\ op = ""
    /\ op' = name
    /\ result' = value
    /\ UNCHANGED <<active_jobs, processed_resumes, response, args>>

\* texts: up to `n` pieces of `fragments` written one after the other
RECURSIVE Concatenations(_, _)
Concatenations(fragments, n) ==
    IF n = 0 THEN {""}
    ELSE LET shorter == Concatenations(fragments, n - 1)
         IN  shorter \cup {t \o f : t \in shorter, f \in fragments}

\* lists of up to n elements of S
RECURSIVE ListsUpTo(_, _)
ListsUpTo(S, n) ==
    IF n = 0 THEN {<<>>}
    ELSE LET shorter == ListsUpTo(S, n - 1)
         IN  shorter \cup {Append(l, x) : l \in shorter, x \in S}

------------------------------------------------------------------------------
(* parse_resume *)

MaxFragments == 2

ParseFragments ==
    {"Python", "ic", " ", "Java", "script", "django flask",
     "7+ yrs of experience, MBA", "Unsupported file format"}

ParseFilenames == {"cv.pdf", "CV.DOCX", "notes.txt", "photo.png"}

ParseContents ==
    {[readable |-> TRUE, text |-> t] : t \in Concatenations(ParseFragments, MaxFragments)}
    \cup {[readable |-> FALSE, text |-> ""]}

ParseInit ==
    /\ Idle
    /\ args \in [filename : ParseFilenames, file_content : ParseContents]

ParseResume == Apply("parse_resume", parse_resume(args.file_content, args.filename))

ParseNext == ParseResume

SpecParse == ParseInit /\ [][ParseNext]_vars

\* the text the decoders hand to parse_resume
DecodedText == extract_text_from_file(args.file_content, args.filename)

\* a record of extracted facts in which every fact is zero or empty
ZeroFacts(r) ==
    /\ r.skills.categorized_skills = [c \in {} |-> <<>>]
    /\ r.skills.all_skills = {}
    /\ r.skills.total_skills_found = 0
    /\ r.experience = [years_experience |-> 0, positions |-> <<>>]
    /\ r.education = [degrees |-> <<>>, institutions |-> <<>>, fields |-> <<>>]

FailureKeys == {"filename", "error", "parsing_success"}

SkillProfileHolds(skills) ==
    /\ skills.total_skills_found = Cardinality(skills.all_skills)
    /\ \A phrase \in skills.all_skills :
           \E c \in DOMAIN skills.categorized_skills :
               phrase \in Range(skills.categorized_skills[c])

\* C2 as stated: for every input text the record parse_resume returns carries a
\* skill profile with total_count = |all| whose phrases all appear under a category.
C2_EveryRecordHasSkillProfile ==
    (op = "parse_resume" /\ args.file_content.readable /\ ~DecodedText.raised) =>
        ("skills" \in DOMAIN result /\ SkillProfileHolds(result.skills))

\* C2 amended: for every input parse_resume returns a record without raising;
\* the record of a successful parse (the text is neither empty nor "Unsupported
\* file format", and decoding did not raise) carries a skill profile with
\* total_count = |all| whose phrases all appear under a category; any other
\* record carries only filename, error and parsing_success False.
C2_SuccessfulRecordHasSkillProfile ==
    op = "parse_resume" =>
        /\ "parsing_success" \in DOMAIN result
        /\ result.filename = args.filename
        /\ result.parsing_success <=>
               (~DecodedText.raised /\ DecodedText.value \notin {"", "Unsupported file format"})
        /\ result.parsing_success =>
               ("skills" \in DOMAIN result /\ SkillProfileHolds(result.skills))
        /\ ~result.parsing_success => DOMAIN result = FailureKeys

C2_Witness ==
    /\ op = "parse_resume"
    /\ result.parsing_success
    /\ result.skills.total_skills_found = 2
    /\ \E c \in DOMAIN result.skills.categorized_skills :
           Len(result.skills.categorized_skills[c]) = 2

------------------------------------------------------------------------------
(* calculate_experience_match *)

MaxYears == 9
MaxRequired == 8

ExperienceProfiles ==
    {[years_experience |-> c, positions |-> <<>>] : c \in 0..MaxYears}
    \cup {[positions |-> <<>>]}

MinimumExperiences ==
    {JInt(r) : r \in 0..MaxRequired} \cup {JNull, JStr(""), JStr(" 3 "), JStr("abc")}

ExperienceInit ==
    /\ Idle
    /\ args \in [resume_experience : ExperienceProfiles,
                 required_experience : MinimumExperiences,
                 up : BOOLEAN]

ExperienceMatch ==
    Apply("calculate_experience_match",
          calculate_experience_match(args.resume_experience, args.required_experience, args.up))

ExperienceNext == ExperienceMatch

SpecExperience == ExperienceInit /\ [][ExperienceNext]_vars

\* candidate years c and required minimum r of the call, for a numeric minimum
CandidateYears == Get(args.resume_experience, "years_experience", 0)
RequiredYears ==
    IF Truthy(args.required_experience) THEN ToFloat(args.required_experience).value ELSE 0
NumericMinimum ==
    ~Truthy(args.required_experience) \/ ~ToFloat(args.required_experience).raised

------------------------------------------------------------------------------
(* calculate_semantic_similarity *)

MaxWordsFragments == 2

WordsFragments == {"SQL", "sql ", " java", "go", "\n"}

SemanticTexts ==
    {JStr(t) : t \in Concatenations(WordsFragments, MaxWordsFragments)} \cup {JNull}

SemanticInit ==
    /\ Idle
    /\ args \in [resume_text : SemanticTexts, job_description : SemanticTexts, up : BOOLEAN]

SemanticSimilarity ==
    Apply("calculate_semantic_similarity",
          calculate_semantic_similarity(args.resume_text, args.job_description, args.up))

SemanticNext == SemanticSimilarity

SpecSemantic == SemanticInit /\ [][SemanticNext]_vars

\* both arguments of the call are texts
BothTexts ==
    /\ op = "calculate_semantic_similarity"
    /\ args.resume_text.type = "str"
    /\ args.job_description.type = "str"

\* the lowercase whitespace-token sets of the two texts
TokensA == Words(Lower(args.resume_text.s))
TokensB == Words(Lower(args.job_description.s))

\* the value for the arguments exchanged; sizes of intersection and union are the
\* same numbers, so the floating-point computation is the same one
Exchanged == calculate_semantic_similarity(args.job_description, args.resume_text, args.up)

\* C6 as stated: symmetric, exactly |intersection| / |union| * 100, in [0,100],
\* and 0 when both token sets are empty.
C6_ExactJaccard ==
    BothTexts =>
        /\ result = Exchanged
        /\ result \in 0..1000
        /\ result * Cardinality(TokensA \cup TokensB) = 1000 * Cardinality(TokensA \cap TokensB)

\* C6 amended: symmetric, |intersection| / |union| * 100 rounded to one decimal
\* place, in [0,100], and 0 when both token sets are empty.
C6_RoundedJaccard ==
    BothTexts =>
        LET union == Cardinality(TokensA \cup TokensB)
            intersection == Cardinality(TokensA \cap TokensB)
        IN  /\ result = Exchanged
            /\ result \in 0..1000
            /\ union = 0 => result = 0
            /\ 2 * (result * union - 1000 * intersection) <= union
            /\ 2 * (1000 * intersection - result * union) <= union

\* {sql, java} against {go, java}: 1/3, reported as 33.3
C6_Witness ==
    /\ BothTexts
    /\ args.resume_text.s = "SQL java"
    /\ TokensB = {"go", "java"}
    /\ result = 333

\* C7 as stated: the similarity of every text with itself is 100.
C7_SelfSimilarityIs100 ==
    (BothTexts /\ args.resume_text = args.job_description) => result = 1000

\* C7 amended: the similarity of a text with itself is 100 when the text holds
\* at least one token, and 0 when it is empty or whitespace only.
C7_SelfSimilarityOfTokens ==
    (BothTexts /\ args.resume_text = args.job_description) =>
        result = IF TokensA = {} THEN 0 ELSE 1000

C7_Witness ==
    /\ BothTexts
    /\ args.resume_text = JStr("SQL java")
    /\ args.job_description = JStr("SQL java")
    /\ result = 1000

------------------------------------------------------------------------------
(* calculate_skills_match *)

MaxJobSkills == 3

ResumeSkillSets == SUBSET {"java", "JavaScript"}

EssentialLists == ListsUpTo({"Java", " Script ", " "}, MaxJobSkills)

PreferredLists == ListsUpTo({"JAVASCRIPT", "go"}, MaxJobSkills)

SkillsInit ==
    /\ Idle
    /\ args \in [resume_skills : ResumeSkillSets,
                 job_essential_skills : EssentialLists,
                 job_preferred_skills : PreferredLists,
                 up : BOOLEAN]

SkillsMatch ==
    Apply("calculate_skills_match",
          calculate_skills_match(args.resume_skills, args.job_essential_skills,
                                 args.job_preferred_skills, args.up))

SkillsNext == SkillsMatch

SpecSkills == SkillsInit /\ [][SkillsNext]_vars

\* the positions of a job's skill list that hold a skill (not a blank entry)
Listed(skills) == {i \in DOMAIN skills : Strip(skills[i]) # ""}

\* the listed positions whose skill, lowercased and trimmed, is a substring of or
\* contains a lowercased resume skill
Matched(skills) ==
    {i \in Listed(skills) :
        \E resume_skill \in args.resume_skills :
            \/ Contains(Lower(resume_skill), Strip(Lower(skills[i])))
            \/ Contains(Strip(Lower(skills[i])), Lower(resume_skill))}

\* pct is exactly matched / listed * 100, or 100 when nothing is listed
ExactPct(pct, skills) ==
    IF Listed(skills) = {} THEN pct = 1000
    ELSE pct * Cardinality(Listed(skills)) = 1000 * Cardinality(Matched(skills))

\* pct is matched / listed * 100 to the nearest tenth, or 100 when nothing is listed
RoundedPct(pct, skills) ==
    IF Listed(skills) = {} THEN pct = 1000
    ELSE LET n == Cardinality(Listed(skills))
             m == Cardinality(Matched(skills))
         IN  2 * (pct * n - 1000 * m) <= n /\ 2 * (1000 * m - pct * n) <= n

\* C8 as stated: a job skill matches exactly when it is a substring of, or
\* contains, a lowercased resume skill; essential_pct = matched / |essential| *
\* 100 (100 when none is listed), likewise preferred_pct; combined_pct =
\* 0.7 * essential_pct + 0.3 * preferred_pct; both lists empty gives 100.
C8_ExactPercentages ==
    op = "calculate_skills_match" =>
        /\ result.essential_matches = Cardinality(Matched(args.job_essential_skills))
        /\ result.preferred_matches = Cardinality(Matched(args.job_preferred_skills))
        /\ ExactPct(result.essential_score, args.job_essential_skills)
        /\ ExactPct(result.preferred_score, args.job_preferred_skills)
        /\ 10 * result.overall_skills_score
               = 7 * result.essential_score + 3 * result.preferred_score
        /\ (args.job_essential_skills = <<>> /\ args.job_preferred_skills = <<>>) =>
               result.overall_skills_score = 1000

\* C8 amended: the same matching rule; essential_pct and preferred_pct are
\* matched / listed * 100 rounded to one decimal place (100 when none is
\* listed), and combined_pct is 0.7 * essential + 0.3 * preferred computed from
\* the unrounded percentages and then rounded to one decimal place; both lists
\* empty gives 100.
C8_RoundedPercentages ==
    op = "calculate_skills_match" =>
        LET en == IF Listed(args.job_essential_skills) = {} THEN 1
                  ELSE Cardinality(Matched(args.job_essential_skills))
            ed == IF Listed(args.job_essential_skills) = {} THEN 1
                  ELSE Cardinality(Listed(args.job_essential_skills))
            pn == IF Listed(args.job_preferred_skills) = {} THEN 1
                  ELSE Cardinality(Matched(args.job_preferred_skills))
            pd == IF Listed(args.job_preferred_skills) = {} THEN 1
                  ELSE Cardinality(Listed(args.job_preferred_skills))
            \* combined = (700 * en / ed + 300 * pn / pd) tenths, over ed * pd
            exact == 700 * en * pd + 300 * pn * ed
            combined == result.overall_skills_score
        IN  /\ result.essential_matches = Cardinality(Matched(args.job_essential_skills))
            /\ result.preferred_matches = Cardinality(Matched(args.job_preferred_skills))
            /\ RoundedPct(result.essential_score, args.job_essential_skills)
            /\ RoundedPct(result.preferred_score, args.job_preferred_skills)
            /\ 2 * (combined * ed * pd - exact) <= ed * pd
            /\ 2 * (exact - combined * ed * pd) <= ed * pd
            /\ (args.job_essential_skills = <<>> /\ args.job_preferred_skills = <<>>) =>
                   combined = 1000

\* resume skill "java": of the essential skills "Java" matches and " Script "
\* does not (the blank entry is not listed), 50.0; of the preferred skills
\* "JAVASCRIPT" matches because it contains "java", 33.3; combined 45.0
C8_Witness ==
    /\ op = "calculate_skills_match"
    /\ args.resume_skills = {"java"}
    /\ args.job_essential_skills = <<"Java", " Script ", " ">>
    /\ args.job_preferred_skills = <<"JAVASCRIPT", "go", "go">>
    /\ result.essential_score = 500
    /\ result.preferred_score = 333
    /\ result.overall_skills_score = 450

------------------------------------------------------------------------------
(* calculate_education_match *)

MaxDegrees == 2

EducationProfiles ==
    {[degrees |-> d, institutions |-> <<>>, fields |-> <<>>] :
        d \in ListsUpTo({"master's", "bs", "PhD"}, MaxDegrees)}
    \cup {[institutions |-> <<>>, fields |-> <<>>]}

EducationRequirements ==
    {JNull, JInt(3), JStr(""), JStr("none"), JStr("None"), JStr("NONE"),
     JStr("Master's preferred"), JStr("BS or PhD"), JStr("High school")}

EducationInit ==
    /\ Idle
    /\ args \in [resume_education : EducationProfiles,
                 job_education_req : EducationRequirements]

EducationMatch ==
    Apply("calculate_education_match",
          calculate_education_match(args.resume_education, args.job_education_req))

EducationNext == EducationMatch

SpecEducation == EducationInit /\ [][EducationNext]_vars

CandidateDegrees == Get(args.resume_education, "degrees", <<>>)

\* C9: for a requirement that is a text or absent, the score is 100 when the
\* requirement is empty or "none" in any letter case; otherwise 90 when a
\* degree of the candidate is a case-insensitive substring of the requirement;
\* otherwise 70 when the candidate has a degree; otherwise 40.
C9_FourTiers ==
    (op = "calculate_education_match" /\ args.job_education_req.type \in {"str", "null"}) =>
        LET requirement == Lower(args.job_education_req.s)
        IN  /\ ~result.raised
            /\ result.value =
                   IF requirement \in {"", "none"} THEN 1000
                   ELSE IF \E i \in DOMAIN CandidateDegrees :
                               Contains(requirement, Lower(CandidateDegrees[i]))
                        THEN 900
                   ELSE IF CandidateDegrees # <<>> THEN 700
                   ELSE 400

\* requirement "Master's preferred", degrees ["master's"]: 90
C9_Witness ==
    /\ op = "calculate_education_match"
    /\ args.job_education_req = JStr("Master's preferred")
    /\ CandidateDegrees = <<"master's">>
    /\ result = Return(900)

------------------------------------------------------------------------------
(* calculate_overall_score *)

ScoreResumes ==
    {parse_resume([readable |-> TRUE, text |-> t], "cv.txt") :
        t \in {"", "python bs", "Java developer, 5 years experience"}}

ScoreJobs ==
    {[requirements |-> Requirements(e, p, m, d, t)] :
        e \in {<<>>, <<"python">>, <<"Python", "Go", "Rust">>},
        p \in {<<>>, <<"python", "go", "rust">>},
        m \in {JNull, JInt(3), JInt(7), JStr("abc")},
        d \in {JStr("none"), JStr("BS required"), JInt(3)},
        t \in {JStr(""), JStr("python"), JStr("Python developer wanted"), JNull}}

ScoreInit ==
    /\ Idle
    /\ args \in [parsed_resume : ScoreResumes, job_posting : ScoreJobs, up : BOOLEAN]

OverallScore ==
    Apply("calculate_overall_score",
          calculate_overall_score(args.parsed_resume, args.job_posting, args.up))

ScoreNext == OverallScore

SpecScore == ScoreInit /\ [][ScoreNext]_vars

\* the steps of the call that raise
FactsMissing ==
    ~({"skills", "experience", "education", "full_text"} \subseteq DOMAIN args.parsed_resume)
MinimumNotNumeric ==
    LET m == args.job_posting.requirements.minimum_experience
    IN  Truthy(m) /\ ToFloat(m).raised
EducationNotText ==
    LET d == args.job_posting.requirements.education_requirements
    IN  Truthy(d) /\ d.type # "str"
DescriptionNotText == args.job_posting.requirements.job_description.type # "str"

Failed == "error" \in DOMAIN result

\* C3 as stated: a result is always returned; when any internal step fails it has
\* overall = 0 and an error field, and a result computed without failure has no
\* error field.
C3_EveryFailureIsReported ==
    op = "calculate_overall_score" =>
        IF FactsMissing \/ MinimumNotNumeric \/ EducationNotText \/ DescriptionNotText
        THEN Failed /\ result.overall_score = 0
        ELSE ~Failed

\* C3 amended: a result is always returned; when a step other than the semantic
\* similarity fails (fact fields missing, a minimum experience that is not
\* numeric, an education requirement that is not a text) it has overall = 0 and
\* an error field; otherwise it has no error field, and a failure inside the
\* semantic similarity (a job description that is not a text) is absorbed there:
\* the semantic score is 50 and the result is an ordinary one.
C3_FailuresOutsideSimilarityAreReported ==
    op = "calculate_overall_score" =>
        /\ "overall_score" \in DOMAIN result
        /\ IF FactsMissing \/ MinimumNotNumeric \/ EducationNotText
           THEN /\ Failed
                /\ result.overall_score = 0
                /\ DOMAIN result = {"overall_score", "error", "candidate_name"}
           ELSE /\ ~Failed
                /\ DescriptionNotText => result.semantic_score = 500

C3_Witness ==
    /\ op = "calculate_overall_score"
    /\ args.job_posting.requirements.minimum_experience = JStr("abc")
    /\ ~FactsMissing
    /\ result = [overall_score |-> 0, error |-> "ValueError", candidate_name |-> "cv.txt"]

\* the weighted sum of the four reported percentages, in hundredths of a percent
WeightedSum ==
    5 * result.skills_breakdown.overall_skills_score
    + 2 * result.experience_score
    + 1 * result.education_score
    + 2 * result.semantic_score

\* C4: in every result without error, overall is 0.5 * combined + 0.2 *
\* experience + 0.1 * education + 0.2 * semantic of the percentages reported in
\* that result, rounded to one decimal place, and lies in [0,100].
C4_WeightedOverall ==
    (op = "calculate_overall_score" /\ ~Failed) =>
        /\ 10 * result.overall_score - WeightedSum <= 5
        /\ WeightedSum - 10 * result.overall_score <= 5
        /\ result.overall_score \in 0..1000

\* 80, 100, 90 and 50 give 79.0
C4_Witness ==
    /\ op = "calculate_overall_score"
    /\ ~Failed
    /\ result.skills_breakdown.overall_skills_score = 800
    /\ result.experience_score = 1000
    /\ result.education_score = 900
    /\ result.semantic_score = 500
    /\ result.overall_score = 790

------------------------------------------------------------------------------
(* The service: any sequence of create-job, upload-resumes and analyze-resumes *)

MaxFiles == 1
BulkSize == 21

\* BulkSize - 1 copies of one file followed by another file
Bulk(f, g) == [i \in 1..BulkSize |-> IF i < BulkSize THEN f ELSE g]

FileLists ==
    ListsUpTo(UploadFiles, MaxFiles)
    \cup {Bulk(pair[1], pair[2]) : pair \in
            {p \in UploadFiles \X UploadFiles :
                /\ p[1] # p[2]
                /\ {p[1].filename, p[2].filename} = {"ann.txt", "bob.txt"}}}

ServiceInit ==
    /\ Idle
    /\ args = NoResult

CreateJob ==
    /\ \E job_id \in JobIds : \E data \in JobBodies : create_job(job_id, data)
    /\ UNCHANGED <<op, args, result>>

UploadResumes ==
    /\ \E job_id \in JobIds \cup {""} : \E files \in FileLists : upload_resumes(job_id, files)
    /\ UNCHANGED <<op, args, result>>

\* the distinct resumes stored for a job
Stored(job_id) ==
    IF job_id \in DOMAIN processed_resumes THEN Range(processed_resumes[job_id]) ELSE {}

AnalyzeResumes ==
    /\ \E job_id \in JobIds \cup {""} :
           \E ups \in [Stored(job_id) -> BOOLEAN] : analyze_resumes(job_id, ups)
    /\ UNCHANGED <<op, args, result>>

ServiceNext == CreateJob \/ UploadResumes \/ AnalyzeResumes

SpecService == ServiceInit /\ [][ServiceNext]_vars

\* the store changes of the step's request
StoresUnchanged == UNCHANGED <<active_jobs, processed_resumes>>

\* the files of an upload that upload_resumes parses with success
Parses(file) ==
    file.filename # "" /\ Get(ParsedUploads[file], "parsing_success", FALSE)

\* what an accepted upload of `files` leaves in the resume store
RECURSIVE Accepted(_)
Accepted(files) ==
    IF files = <<>> THEN <<>>
    ELSE IF Parses(Head(files))
    THEN <<ParsedUploads[Head(files)]>> \o Accepted(Tail(files))
    ELSE Accepted(Tail(files))

\* the score results of `resumes` against `job_posting`, in the order stored
RECURSIVE ScoresOf(_, _, _)
ScoresOf(resumes, job_posting, ups) ==
    IF resumes = <<>> THEN <<>>
    ELSE <<Scored(Head(resumes), job_posting, ups[Head(resumes)])>>
         \o ScoresOf(Tail(resumes), job_posting, ups)

\* how often x occurs in the list
Count(x, list) == Cardinality({i \in DOMAIN list : list[i] = x})

\* `candidates` is `scores` ordered by non-increasing overall score and cut to
\* the TopCandidates highest
RankedTop(candidates, scores) ==
    /\ Len(candidates) = Min(TopCandidates, Len(scores))
    /\ \A i, k \in DOMAIN candidates :
           i < k => SortKey(candidates[i]) >= SortKey(candidates[k])
    /\ \A x \in Range(candidates) \cup Range(scores) :
           /\ Count(x, candidates) <= Count(x, scores)
           /\ Count(x, candidates) < Count(x, scores) =>
                  \A i \in DOMAIN candidates : SortKey(candidates[i]) >= SortKey(x)
    /\ \A i \in DOMAIN candidates :
           "error" \in DOMAIN candidates[i] => candidates[i].overall_score = 0

\* the last exchange is a successful analyze-resumes
Analyzed == response.endpoint = "analyze-resumes" /\ response.status = 200

\* the body of a successful analyze-resumes for job j reports the resumes stored for j
AnalysisReportsStored ==
    Analyzed =>
        LET j == response.request.job_id
        IN  /\ j \in DOMAIN active_jobs \cap DOMAIN processed_resumes
            /\ response.body.total_candidates = Len(processed_resumes[j])
            /\ \E ups \in [Range(processed_resumes[j]) -> BOOLEAN] :
                   RankedTop(response.body.candidates,
                             ScoresOf(processed_resumes[j], active_jobs[j], ups))

\* the resume store of job j changes only by an accepted upload for j, which
\* leaves there the resumes it parsed, in the order uploaded
StoredByLatestUpload ==
    /\ DOMAIN processed_resumes \subseteq DOMAIN processed_resumes'
    /\ \A j \in DOMAIN processed_resumes' :
           (j \notin DOMAIN processed_resumes \/ processed_resumes'[j] # processed_resumes[j]) =>
               /\ response'.endpoint = "upload-resumes"
               /\ response'.status = 200
               /\ response'.request.job_id = j
    /\ (response'.endpoint = "upload-resumes" /\ response'.status = 200) =>
           /\ response'.request.job_id \in DOMAIN processed_resumes'
           /\ processed_resumes'[response'.request.job_id] = Accepted(response'.request.files)
           /\ response'.body.total_processed = Len(Accepted(response'.request.files))

\* C10: after any sequence of create-job, upload-resumes and analyze-resumes
\* requests, a successful analyze-resumes for job j returns the score results of
\* the resumes stored by the most recent accepted upload for j, ordered by
\* non-increasing overall score (a failed score is 0 and keeps its error field),
\* cut to the 20 highest, with total_candidates the number of stored resumes;
\* analyze-resumes changes neither the job store nor the resume store.
C10_AnalysisRanksLatestUpload ==
    /\ []AnalysisReportsStored
    /\ [][/\ StoredByLatestUpload
          /\ response'.endpoint = "analyze-resumes" => StoresUnchanged]_vars

\* 21 resumes are stored, 20 are reported, and the resume uploaded last is
\* reported first because it scores highest
C10_Witness ==
    /\ Analyzed
    /\ response.body.total_candidates = BulkSize
    /\ Len(response.body.candidates) = TopCandidates
    /\ LET stored == processed_resumes[response.request.job_id]
       IN  /\ response.body.candidates[1].candidate_name = stored[Len(stored)].filename
           /\ response.body.candidates[1].candidate_name # stored[1].filename
           /\ response.body.candidates[1].overall_score
                  > response.body.candidates[2].overall_score

====
